---- MODULE Spec2Model ----
(***************************************************************************)
(* A model of the Freeze bump allocator (src/src/lib.rs): the arena        *)
(* BumpAlloc, its handle BumpAllocRef and the in-progress vector           *)
(* LiquidVecRef, over a byte-addressed memory.                             *)
(***************************************************************************)
EXTENDS Integers, Sequences, FiniteSets, TLC

(* ------------------------------ bounds -------------------------------- *)
\* Number of bytes of the mapping the model tracks, from data_base upwards.
MemLen == 3
\* Longest slice handed to extend_from_slice.
MaxItems == 2
\* Number of freezes explored.
MaxFreezes == 2
\* Number of handles (to_ref calls) explored.
MaxHandles == 1
\* Address spaces of 2^1 .. 2^MaxBits bytes are explored, asked for with
\* bits in 1 .. MaxBits and with bits one word width above them.
MaxBits == 1
\* The capacity-pressure flag is explored for address spaces up to 2^MaxCapBits.
MaxCapBits == 7
\* Handles obtained one after the other on one arena, where the handle's
\* lifecycle is explored.
MaxLifeHandles == 2

(* ------------------------- the operating system ----------------------- *)
\* The width of usize, the type of 1 << bits.
WordBits == 64
\* size_of::<BumpAlloc>(): a usize, two pointers and a usize.
SizeOfBumpAlloc == 32
\* mmap/munmap work on whole pages.
PageSize == 2 ^ 12
\* What mmap can return: MAP_FAILED (-1), a null address, or a page-aligned address.
MapFailed == 0 - 1
MmapAddr == 16 * PageSize
MmapResults == {MapFailed, 0, MmapAddr}
\* Where the BumpAlloc value itself can live (a stack slot): page-aligned or not.
StackAddr == 64 * PageSize
StructAddrs == {StackAddr, StackAddr + 8}

\* The code copies and stores bytes and never looks at their value: the two
\* extremes of u8 stand for its 256 values.
Bytes == {0, 255}
\* What a read outside the tracked bytes of the mapping yields.
Untracked == 0 - 1
MemAddrs == MmapAddr .. (MmapAddr + MemLen - 1)
BitsChoices == (1 .. MaxBits) \cup {WordBits + b : b \in 1 .. MaxBits}
\* The bits whose address space is at least the size of the arena record.
CapBits == {b \in 1 .. MaxCapBits : 2 ^ b >= SizeOfBumpAlloc}

PageOf(addr) == addr \div PageSize
\* The pages munmap(addr, len) unmaps; none (EINVAL) when addr is not page-aligned.
MunmapPages(addr, len) ==
    IF addr % PageSize # 0 \/ len = 0 THEN {}
    ELSE PageOf(addr) .. PageOf(addr + len - 1)

(* ------------------------------- state -------------------------------- *)
VARIABLES
    pc,             \* "start", "live", "panicked", "crashed", "dropped"
    address_space,  \* BumpAlloc.address_space
    data_base,      \* BumpAlloc.data_base
    top_base,       \* BumpAlloc.top_base
    top_size,       \* BumpAlloc.top_size
    mem,            \* the bytes of the mapping, by address
    handles,        \* number of live BumpAllocRef (ptr = the arena's address)
    views,          \* number of live LiquidVecRef borrowing the handle
    frozen,         \* the slices freeze returned, in order
    munmapCalls,    \* the munmap calls made so far: [addr, len]
    unmapped,       \* the pages munmap has unmapped
    ref,            \* the reference byte list of the current view
    ref0,           \* the same, started empty when the view was obtained
    last            \* the last operation, its arguments and its result

vars == <<pc, address_space, data_base, top_base, top_size, mem, handles, views,
          frozen, munmapCalls, unmapped, ref, ref0, last>>

arena == <<address_space, data_base, top_base, top_size>>

ghosts == <<ref, ref0>>

Op(name, a, b, ret) == [op |-> name, a |-> a, b |-> b, ret |-> ret]

(* ----------------------------- helpers -------------------------------- *)
RECURSIVE SumLen(_)
SumLen(s) == IF s = <<>> THEN 0 ELSE Head(s).len + SumLen(Tail(s))

Reverse(s) == [k \in 1 .. Len(s) |-> s[Len(s) + 1 - k]]

\* The bytes of memory m in [addr, addr + n).
Slice(m, addr, n) ==
    [k \in 1 .. n |-> IF addr + k - 1 \in DOMAIN m THEN m[addr + k - 1] ELSE Untracked]

\* 1 << bits on a usize where the shift is not checked for overflow: the shift
\* amount is taken modulo the word width.
ShiftLeft(bits) == 2 ^ (bits % WordBits)

Init ==
    /\ pc = "start"
    /\ address_space = 0
    /\ data_base = 0
    /\ top_base = 0
    /\ top_size = 0
    /\ mem = [a \in MemAddrs |-> 0]
    /\ handles = 0
    /\ views = 0
    /\ frozen = <<>>
    /\ munmapCalls = <<>>
    /\ unmapped = {}
    /\ ref = <<>>
    /\ ref0 = <<>>
    /\ last = Op("none", 0, 0, <<>>)

(* --------------------------- BumpAlloc -------------------------------- *)
\* (mutant) the check of the mmap result without the null case
ReserveFailedNoNull(res) == res = MapFailed

\* The two checks of the mmap result: MAP_FAILED (todo!() panics) and null.
ReserveFailed(res) == res = MapFailed \/ res = 0

\* BumpAlloc::new_with_address_space: mmap, the two failure checks, the record.
\* In a build with overflow checks 1 << bits panics for bits >= WordBits, before
\* the mmap; in a build without them the shift wraps.
New(bits, res) ==
    /\ pc = "start"
    /\ \/ /\ bits >= WordBits
          /\ pc' = "panicked"
          /\ UNCHANGED arena
       \/ IF ReserveFailed(res)
          THEN /\ pc' = "panicked"
               /\ UNCHANGED arena
          ELSE /\ pc' = "live"
               /\ address_space' = ShiftLeft(bits)
               /\ data_base' = res
               /\ top_base' = res
               /\ top_size' = 0
    /\ last' = Op("new", bits, res, <<>>)
    /\ UNCHANGED <<mem, handles, views, frozen, munmapCalls, unmapped, ghosts>>

\* BumpAlloc::to_ref takes &'data mut self: the arena is borrowed exclusively, so
\* no other handle is live, and slices of an earlier borrow cannot be used any more.
CanBorrowArena(h) == h = 0

Expire(fs) == [k \in 1 .. Len(fs) |-> [fs[k] EXCEPT !.live = FALSE]]

\* to_ref where at most n handles are obtained over the arena's life.
ToRefUpTo(n) ==
    /\ pc = "live"
    /\ CanBorrowArena(handles)
    /\ Len(munmapCalls) + handles < n
    /\ handles' = handles + 1
    /\ frozen' = Expire(frozen)
    /\ last' = Op("to_ref", 0, 0, <<>>)
    /\ UNCHANGED <<pc, arena, mem, views, munmapCalls, unmapped, ghosts>>

ToRef == ToRefUpTo(MaxHandles)

\* The arena value goes out of scope (BumpAlloc has no Drop): nothing borrows it.
DropArena ==
    /\ pc = "live"
    /\ handles = 0
    /\ pc' = "dropped"
    /\ frozen' = Expire(frozen)
    /\ last' = Op("drop_arena", 0, 0, <<>>)
    /\ UNCHANGED <<arena, mem, handles, views, munmapCalls, unmapped, ghosts>>

(* -------------------------- BumpAllocRef ------------------------------ *)
\* (mutant) top() handing out a view while another one is live
CanBorrowHandleShared(h, v) == h > 0

\* BumpAllocRef::top takes &'alloc mut self: the handle is borrowed exclusively
\* while the view lives.
CanBorrowHandle(h, v) == h > 0 /\ v = 0

Top ==
    /\ pc = "live"
    /\ CanBorrowHandle(handles, views)
    /\ views' = views + 1
    /\ ref' = Slice(mem, top_base, top_size)
    /\ ref0' = <<>>
    /\ last' = Op("top", 0, 0, <<>>)
    /\ UNCHANGED <<pc, arena, mem, handles, frozen, munmapCalls, unmapped>>

\* (mutant) data_size forgetting the committed bytes
DataSizeInProgress(tb, db, ts) == ts

\* BumpAllocRef::data_size
DataSize(tb, db, ts) == (tb - db) + ts

data_size == DataSize(top_base, data_base, top_size)

\* A call of data_size(&self): the handle is borrowed shared, so no view is live.
DataSizeQuery ==
    /\ pc = "live"
    /\ handles > 0
    /\ views = 0
    /\ last' = Op("data_size", 0, 0, <<data_size>>)
    /\ UNCHANGED <<pc, arena, mem, handles, views, frozen, munmapCalls, unmapped, ghosts>>

\* (mutant) the flag raised already at half of the address space
DangerousAtLeast(ds, cap) == ds + SizeOfBumpAlloc >= cap \div 2

\* BumpAllocRef::dangerous
Dangerous(ds, cap) == ds + SizeOfBumpAlloc > cap \div 2

\* A call of dangerous(&self).
DangerousQuery ==
    /\ pc = "live"
    /\ handles > 0
    /\ views = 0
    /\ last' = Op("dangerous", 0, 0, <<Dangerous(data_size, address_space)>>)
    /\ UNCHANGED <<pc, arena, mem, handles, views, frozen, munmapCalls, unmapped, ghosts>>

\* Drop for BumpAllocRef: munmap(self.ptr, address_space), self.ptr the address
\* ptr the arena value lives at (it is not observed before this call).
MunmapAddr(ptr, db) == ptr

DropHandle(ptr) ==
    /\ pc = "live"
    /\ handles > 0
    /\ views = 0
    /\ LET addr == MunmapAddr(ptr, data_base)
           gone == unmapped \cup MunmapPages(addr, address_space)
       IN  /\ munmapCalls' = Append(munmapCalls, [addr |-> addr, len |-> address_space])
           /\ unmapped' = gone
           \* the page holding the caller's stack slot is gone: the process faults
           /\ pc' = IF PageOf(ptr) \in gone THEN "crashed" ELSE pc
    /\ handles' = handles - 1
    /\ last' = Op("drop_handle", 0, 0, <<>>)
    /\ UNCHANGED <<arena, mem, views, frozen, ghosts>>

(* -------------------------- LiquidVecRef ------------------------------ *)
HasView == pc = "live" /\ views > 0

\* The model tracks MemLen bytes of the mapping: writes stay inside them.
Tracked(dst, n) == dst + n <= MmapAddr + MemLen

\* Writing the bytes of items at dst, dst + 1, ...
WriteSeq(m, dst, items) ==
    [a \in DOMAIN m |->
        IF dst <= a /\ a < dst + Len(items) THEN items[a - dst + 1] ELSE m[a]]

\* std::ptr::copy (memmove) inside the mapping: byte by byte, in the direction
\* that keeps an overlapping source intact.
RECURSIVE CopyForward(_, _, _, _)
CopyForward(m, src, dst, n) ==
    IF n = 0 THEN m
    ELSE CopyForward(WriteSeq(m, dst, Slice(m, src, 1)), src + 1, dst + 1, n - 1)

RECURSIVE CopyBackward(_, _, _, _)
CopyBackward(m, src, dst, n) ==
    IF n = 0 THEN m
    ELSE CopyBackward(WriteSeq(m, dst + n - 1, Slice(m, src + n - 1, 1)), src, dst, n - 1)

PtrCopy(m, src, dst, n) ==
    IF dst <= src THEN CopyForward(m, src, dst, n) ELSE CopyBackward(m, src, dst, n)

\* The address the next appended byte goes to: top_base.add(top_size).
TailAddr(tb, ts) == tb + ts

\* (mutant) extend_from_slice growing the length by one, as extend_one does
ExtendSizeOne(ts, n) == ts + 1

\* top_size after n bytes were appended.
ExtendSize(ts, n) == ts + n

\* LiquidVecRef::extend_one
ExtendOne(item) ==
    /\ HasView
    /\ Tracked(TailAddr(top_base, top_size), 1)
    /\ mem' = WriteSeq(mem, TailAddr(top_base, top_size), <<item>>)
    /\ top_size' = top_size + 1
    /\ ref' = Append(ref, item)
    /\ ref0' = Append(ref0, item)
    /\ last' = Op("extend_one", 0, 0, <<>>)
    /\ UNCHANGED <<pc, address_space, data_base, top_base, handles, views, frozen,
                   munmapCalls, unmapped>>

\* (mutant) the hint given as MADV_DONTNEED: the pages of a page-aligned range
\* read as zero afterwards
MadviseDontNeed(m, addr, len) ==
    IF addr % PageSize # 0 \/ len = 0 THEN m
    ELSE [a \in DOMAIN m |->
             IF PageOf(a) \in PageOf(addr) .. PageOf(addr + len - 1) THEN 0 ELSE m[a]]

\* libc::madvise(addr, len, MADV_WILLNEED): read-ahead advice, the bytes of the
\* mapping stay what they are (whether the call succeeds or fails with EINVAL).
Madvise(m, addr, len) == m

\* LiquidVecRef::extend_reserve
ExtendReserve(additional) ==
    /\ HasView
    /\ mem' = Madvise(mem, TailAddr(top_base, top_size), additional)
    /\ last' = Op("extend_reserve", 0, 0, <<>>)
    /\ UNCHANGED <<pc, arena, handles, views, frozen, munmapCalls, unmapped, ghosts>>

\* LiquidVecRef::extend_from_slice, items a slice of the caller's
ExtendFromSlice(items) ==
    /\ HasView
    /\ Tracked(TailAddr(top_base, top_size), Len(items))
    /\ mem' = WriteSeq(mem, TailAddr(top_base, top_size), items)
    /\ top_size' = ExtendSize(top_size, Len(items))
    /\ ref' = ref \o items
    /\ ref0' = ref0 \o items
    /\ last' = Op("extend_from_slice", 0, 0, <<>>)
    /\ UNCHANGED <<pc, address_space, data_base, top_base, handles, views, frozen,
                   munmapCalls, unmapped>>

\* The slice index [i .. j) of a slice of length n is checked (a panic outside
\* it): the model follows the calls that pass the check.
RangeOk(i, j, n) == i <= j /\ j <= n

\* (mutant) extend_from_within reading from the start of the buffer
SrcAddrStart(tb, i) == tb

\* Where the source of extend_from_within(i .. j) starts.
SrcAddr(tb, i) == tb + i

\* The range [i .. j) of a reference list, empty where the list is too short for it.
Sub(s, i, j) == IF RangeOk(i, j, Len(s)) THEN SubSeq(s, i + 1, j) ELSE <<>>

\* LiquidVecRef::extend_from_within(i .. j): extend_from_slice of a slice of the
\* in-progress buffer itself.
ExtendFromWithin(i, j) ==
    /\ HasView
    /\ RangeOk(i, j, top_size)
    /\ Tracked(TailAddr(top_base, top_size), j - i)
    /\ mem' = PtrCopy(mem, SrcAddr(top_base, i), TailAddr(top_base, top_size), j - i)
    /\ top_size' = ExtendSize(top_size, j - i)
    /\ ref' = ref \o Sub(ref, i, j)
    /\ ref0' = ref0 \o Sub(ref0, i, j)
    /\ last' = Op("extend_from_within", i, j, <<>>)
    /\ UNCHANGED <<pc, address_space, data_base, top_base, handles, views, frozen,
                   munmapCalls, unmapped>>

\* (mutants) pop without the check for an empty buffer; truncate without the
\* early return
PopSizeUnchecked(ts) == ts - 1

TruncateSizeUnchecked(ts, len) == len

\* The length pop leaves, and the one truncate(len) leaves.
PopSize(ts) == IF ts = 0 THEN 0 ELSE ts - 1

TruncateSize(ts, len) == IF len > ts THEN ts ELSE len

Front(s, n) == IF n >= Len(s) THEN s ELSE SubSeq(s, 1, n)

\* LiquidVecRef::pop
Pop ==
    /\ HasView
    /\ top_size' = PopSize(top_size)
    /\ last' = Op("pop", 0, 0,
                  IF top_size = 0 THEN <<>>
                  ELSE Slice(mem, TailAddr(top_base, PopSize(top_size)), 1))
    /\ ref' = Front(ref, Len(ref) - 1)
    /\ ref0' = Front(ref0, Len(ref0) - 1)
    /\ UNCHANGED <<pc, address_space, data_base, top_base, mem, handles, views, frozen,
                   munmapCalls, unmapped>>

\* LiquidVecRef::truncate
Truncate(len) ==
    /\ HasView
    /\ top_size' = TruncateSize(top_size, len)
    /\ last' = Op("truncate", len, 0, <<>>)
    /\ ref' = Front(ref, len)
    /\ ref0' = Front(ref0, len)
    /\ UNCHANGED <<pc, address_space, data_base, top_base, mem, handles, views, frozen,
                   munmapCalls, unmapped>>

\* DerefMut for LiquidVecRef: the whole in-progress buffer, here reversed in place
\* (deref_mut().reverse()).
ReverseInPlace ==
    /\ HasView
    /\ mem' = WriteSeq(mem, top_base, Reverse(Slice(mem, top_base, top_size)))
    /\ ref' = Reverse(ref)
    /\ ref0' = Reverse(ref0)
    /\ last' = Op("reverse", 0, 0, <<>>)
    /\ UNCHANGED <<pc, arena, handles, views, frozen, munmapCalls, unmapped>>

\* IndexMut for LiquidVecRef: v[i] = b, the index checked against the length.
IndexSet(i, b) ==
    /\ HasView
    /\ i < top_size
    /\ mem' = WriteSeq(mem, top_base + i, <<b>>)
    /\ ref' = [ref EXCEPT ![i + 1] = b]
    /\ ref0' = IF i < Len(ref0) THEN [ref0 EXCEPT ![i + 1] = b] ELSE ref0
    /\ last' = Op("index_set", 0, 0, <<>>)
    /\ UNCHANGED <<pc, arena, handles, views, frozen, munmapCalls, unmapped>>

\* (mutant) freeze returning a slice that starts at data_base
FreezeSliceFromBase(db, tb, ts) == [base |-> db, len |-> ts]

\* The slice freeze returns: slice_from_raw_parts_mut(top_base, top_size).
FreezeSlice(db, tb, ts) == [base |-> tb, len |-> ts]

\* (mutants) freeze leaving top_base where it was; moving it one byte too far;
\* leaving top_size as it was
FreezeTopStay(tb, ts) == tb

FreezeTopSkip(tb, ts) == tb + ts + 1

FreezeSizeKeep(ts) == ts
\* (mutant) top_base stops one byte short of the end of the frozen slice
FreezeTopOverlap(tb, ts) == IF ts > 0 THEN tb + ts - 1 ELSE tb

\* top_base and top_size after a freeze of ts bytes.
FreezeTop(tb, ts) == tb + ts

FreezeSize(ts) == 0

\* LiquidVecRef::freeze: the slice is returned with lifetime 'data, top_base moves
\* past it, top_size is reset; the view is consumed.
Freeze ==
    /\ HasView
    /\ Len(frozen) < MaxFreezes
    /\ LET s == FreezeSlice(data_base, top_base, top_size)
       IN  frozen' = Append(frozen, [base |-> s.base, len |-> s.len,
                                     bytes |-> Slice(mem, s.base, s.len),
                                     live |-> TRUE])
    /\ top_base' = FreezeTop(top_base, top_size)
    /\ top_size' = FreezeSize(top_size)
    /\ views' = views - 1
    /\ last' = Op("freeze", 0, 0, <<>>)
    /\ UNCHANGED <<pc, address_space, data_base, mem, handles, munmapCalls, unmapped,
                   ghosts>>

\* The view goes out of scope without being frozen (LiquidVecRef has no Drop).
DropView ==
    /\ HasView
    /\ views' = views - 1
    /\ last' = Op("drop_view", 0, 0, <<>>)
    /\ UNCHANGED <<pc, arena, mem, handles, frozen, munmapCalls, unmapped, ghosts>>

\* The caller reads the k-th frozen slice, which it may while the lifetime 'data
\* of the slice lasts.
UseSlice(k) ==
    /\ pc = "live"
    /\ frozen[k].live
    /\ last' = Op("use_slice", 0, 0, <<>>)
    /\ UNCHANGED <<pc, arena, mem, handles, views, frozen, munmapCalls, unmapped, ghosts>>

Items == UNION {[1 .. n -> Bytes] : n \in 0 .. MaxItems}

Next ==
    \/ \E bits \in BitsChoices, res \in MmapResults : New(bits, res)
    \/ ToRef
    \/ DropArena
    \/ Top
    \/ DataSizeQuery
    \/ DangerousQuery
    \/ \E ptr \in StructAddrs : DropHandle(ptr)
    \/ \E item \in Bytes : ExtendOne(item)
    \/ \E additional \in 0 .. MaxItems : ExtendReserve(additional)
    \/ \E items \in Items : ExtendFromSlice(items)
    \/ \E i \in 0 .. MemLen, j \in 0 .. MemLen : ExtendFromWithin(i, j)
    \/ Pop
    \/ \E len \in 0 .. MemLen : Truncate(len)
    \/ ReverseInPlace
    \/ \E i \in 0 .. MemLen, b \in Bytes : IndexSet(i, b)
    \/ Freeze
    \/ DropView
    \/ \E k \in 1 .. Len(frozen) : UseSlice(k)

Spec == Init /\ [][Next]_vars

\* The handle's queries on arenas whose address space is around twice the size
\* of the arena record.
NextCap ==
    \/ \E bits \in CapBits, res \in MmapResults : New(bits, res)
    \/ ToRef
    \/ Top
    \/ \E item \in Bytes : ExtendOne(item)
    \/ \E items \in Items : ExtendFromSlice(items)
    \/ Pop
    \/ \E len \in 0 .. MemLen : Truncate(len)
    \/ Freeze
    \/ DropView
    \/ DataSizeQuery
    \/ DangerousQuery

SpecCap == Init /\ [][NextCap]_vars

\* The handle's lifecycle: handles obtained and dropped one after the other on
\* one arena.
NextLife ==
    \/ \E bits \in BitsChoices, res \in MmapResults : New(bits, res)
    \/ ToRefUpTo(MaxLifeHandles)
    \/ Top
    \/ \E item \in Bytes : ExtendOne(item)
    \/ Pop
    \/ Freeze
    \/ DropView
    \/ DataSizeQuery
    \/ DangerousQuery
    \/ \E ptr \in StructAddrs : DropHandle(ptr)

SpecLife == Init /\ [][NextLife]_vars

(* ------------------------------ claims -------------------------------- *)
LastFrozen == frozen[Len(frozen)]

\* C1 (as stated): the slice freeze returns equals the reference list obtained by
\* applying the view's operations, in order, to an empty list.
C1_RoundTripFromEmpty ==
    last.op = "freeze" => Slice(mem, LastFrozen.base, LastFrozen.len) = ref0

\* C1 (amended): the slice freeze returns equals the reference list obtained by
\* applying the view's operations, in order, to the content the view had when it
\* was obtained (empty for the first view and for a view obtained after a freeze).
C1_RoundTrip ==
    last.op = "freeze" => Slice(mem, LastFrozen.base, LastFrozen.len) = ref

C1_Witness ==
    /\ last.op = "freeze"
    /\ LastFrozen.len = 3
    /\ ref = <<255, 0, 0>>

\* C2: right after each freeze, data_size equals the sum of the lengths of all
\* slices frozen so far.
C2_CumulativeAccounting ==
    last.op = "freeze" => data_size = SumLen(frozen)

C2_Witness ==
    /\ last.op = "freeze"
    /\ Len(frozen) = 2
    /\ frozen[1].len > 0
    /\ frozen[2].len > 0

\* C3: the bytes of every frozen slice stay what they were when it was frozen,
\* whatever later views do.
C3_NonInterference ==
    \A k \in 1 .. Len(frozen) :
        Slice(mem, frozen[k].base, frozen[k].len) = frozen[k].bytes

C3_Witness ==
    /\ Len(frozen) >= 1
    /\ frozen[1].len > 0
    /\ frozen[1].bytes[1] = 0
    /\ views = 1
    /\ last.op = "reverse"
    /\ ref = <<255, 0>>

\* C4: every munmap the handle's drop makes is given the reservation: it starts
\* at data_base and is address_space long.
C4_ReleaseIsReservation ==
    \A k \in 1 .. Len(munmapCalls) :
        munmapCalls[k].addr = data_base /\ munmapCalls[k].len = address_space

\* C5: freeze of a view of length n with top at t returns the slice [t, t + n)
\* holding the view's content, copies nothing, and leaves top at t + n and the
\* length at 0.
C5_FreezePost ==
    [][last'.op = "freeze" =>
         /\ Len(frozen') = Len(frozen) + 1
         /\ frozen'[Len(frozen')].base = top_base
         /\ frozen'[Len(frozen')].len = top_size
         /\ Slice(mem', frozen'[Len(frozen')].base, frozen'[Len(frozen')].len)
              = Slice(mem, top_base, top_size)
         /\ mem' = mem
         /\ top_base' = top_base + top_size
         /\ top_size' = 0]_vars

C5_Witness ==
    /\ last.op = "freeze"
    /\ LastFrozen.len = 2
    /\ LastFrozen.base > data_base

\* C6: a frozen slice is only used before the handle's drop has made its
\* munmap call.
C6_UseBeforeRelease ==
    last.op = "use_slice" => munmapCalls = <<>>

C8_FreshViewEmpty ==
    last.op = "top" => top_size = 0

\* C8 (amended): top() leaves the length as it is; the length is 0 after creation
\* and after each freeze and does not change while no view is live, so a fresh
\* view is empty unless an earlier view was dropped unfrozen with bytes in it.
C8_FreshViewAfterFreeze ==
    [][/\ last'.op = "top" => top_size' = top_size
       /\ (last'.op = "freeze" \/ (last'.op = "new" /\ pc' = "live")) => top_size' = 0
       /\ views' = 0 /\ views = 0 => top_size' = top_size]_vars

C8_Witness ==
    /\ last.op = "top"
    /\ top_size = 0
    /\ Len(frozen) = 1
    /\ frozen[1].len > 0

\* C9 (as stated): data_base <= top_base <= data_base + address_space.
C9_ArenaBounds ==
    pc = "live" => data_base <= top_base /\ top_base <= data_base + address_space

\* C9 (amended): data_base <= top_base, and top_base passes
\* data_base + address_space only by freezing a buffer that was built past it.
C9_ArenaBoundsUnlessOverrun ==
    pc = "live" =>
        /\ data_base <= top_base
        /\ \/ top_base <= data_base + address_space
           \/ \E k \in 1 .. Len(frozen) :
                  frozen[k].base + frozen[k].len > data_base + address_space

C9_Witness ==
    /\ pc = "live"
    /\ last.op = "freeze"
    /\ Len(frozen) = 2
    /\ top_base = data_base + address_space

\* C10: extend_from_within(i .. j) appends the bytes that were at i .. j before
\* the call, leaves the bytes before the old length as they were, and grows the
\* length by j - i.
C10_ExtendFromWithin ==
    [][last'.op = "extend_from_within" =>
         /\ top_size' = top_size + (last'.b - last'.a)
         /\ Slice(mem', top_base, top_size) = Slice(mem, top_base, top_size)
         /\ Slice(mem', top_base + top_size, last'.b - last'.a)
              = Slice(mem, top_base + last'.a, last'.b - last'.a)]_vars

C10_Witness ==
    /\ last.op = "extend_from_within"
    /\ last.a = 1
    /\ last.b = 2
    /\ ref = <<0, 255, 255>>

\* C11: data_size does not decrease across any operation other than pop and
\* truncate, and freeze leaves it unchanged.
C11_UsedBytesMonotone ==
    [][pc = "live" /\ pc' = "live" /\ last'.op \notin {"pop", "truncate"} =>
         /\ data_size' >= data_size
         /\ last'.op = "freeze" => data_size' = data_size]_vars

C11_Witness ==
    /\ last.op = "freeze"
    /\ Len(frozen) = 2
    /\ LastFrozen.len = 2
    /\ data_size = 3

\* C12: truncate(n) with n above the length changes nothing; with n at most the
\* length it sets the length to n and keeps the first n bytes; it never grows
\* the length.
C12_TruncateShrinkOnly ==
    [][last'.op = "truncate" =>
         /\ last'.a > top_size => top_size' = top_size
         /\ last'.a <= top_size => top_size' = last'.a
         /\ top_size' <= top_size
         /\ mem' = mem /\ top_base' = top_base
         /\ Slice(mem', top_base', top_size') = Front(ref, last'.a)]_vars

C12_Witness ==
    /\ last.op = "truncate"
    /\ last.a = 3
    /\ top_size = 2
    /\ ref = <<255, 0>>

\* C13: pop on an empty view returns no value and leaves the length 0 and top
\* where it was; pop on a view of length n > 0 returns the byte at n - 1 and
\* leaves the length n - 1; the length is never negative.
C13_Pop ==
    [][/\ last'.op = "pop" =>
            /\ top_base' = top_base /\ mem' = mem
            /\ IF top_size = 0
               THEN last'.ret = <<>> /\ top_size' = 0
               ELSE /\ last'.ret = <<ref[top_size]>>
                    /\ top_size' = top_size - 1
       /\ top_size' >= 0]_vars

C13_Witness ==
    /\ last.op = "pop"
    /\ last.ret = <<>>
    /\ top_size = 0
    /\ top_base > data_base

\* C19: extend_reserve leaves top, the length, the in-progress bytes and the
\* frozen bytes as they were: nothing a later operation reads depends on it.
C19_ReserveNoEffect ==
    [][last'.op = "extend_reserve" =>
         /\ UNCHANGED <<pc, arena, mem, frozen, handles, views, ref>>
         /\ data_size' = data_size]_vars

C19_Witness ==
    /\ last.op = "extend_reserve"
    /\ top_size = 0
    /\ top_base = data_base
    /\ \E a \in MemAddrs : mem[a] # 0

\* C15: a created arena records a capacity of exactly 2^bits, with top at the
\* base and length 0, for every bits.
C15_CapacityIsPow2 ==
    last.op = "new" /\ pc = "live" =>
        /\ last.a < WordBits
        /\ address_space = 2 ^ last.a
        /\ top_base = data_base
        /\ top_size = 0

\* C16: when mmap returns MAP_FAILED or null, new panics and nothing runs after
\* it; no arena has such a base address.
C16_ReservationFailureFatal ==
    /\ [](/\ last.op = "new" /\ (last.b = MapFailed \/ last.b = 0) => pc = "panicked"
          /\ pc \in {"live", "dropped", "crashed"} =>
                 data_base # 0 /\ data_base # MapFailed)
    /\ [][pc # "panicked"]_vars

C16_Witness ==
    /\ pc = "panicked"
    /\ last.op = "new"
    /\ last.a < WordBits
    /\ last.b = 0

\* C18: the frozen slices, in freeze order, tile [data_base, top_base): the first
\* starts at data_base, each next one starts where the one before ends, the last
\* ends at top_base, no two overlap, and the in-progress buffer
\* [top_base, top_base + top_size) starts at or after the end of every one.
C18_FrozenTiling ==
    /\ \A k \in 1 .. Len(frozen) :
           frozen[k].base = IF k = 1 THEN data_base
                            ELSE frozen[k - 1].base + frozen[k - 1].len
    /\ top_base = IF frozen = <<>> THEN data_base
                  ELSE LastFrozen.base + LastFrozen.len
    /\ SumLen(frozen) = top_base - data_base
    /\ \A j \in 1 .. Len(frozen) : \A k \in 1 .. Len(frozen) :
           j < k => frozen[j].base + frozen[j].len <= frozen[k].base
    /\ \A k \in 1 .. Len(frozen) :
           /\ frozen[k].len >= 0
           /\ frozen[k].base + frozen[k].len <= top_base
           /\ top_size >= 0

C18_Witness ==
    /\ Len(frozen) = 2
    /\ frozen[1].len > 0
    /\ frozen[2].len > 0
    /\ frozen[2].base > data_base
    /\ views = 1
    /\ top_size > 0

\* C14: dangerous() answers true exactly when the used bytes plus the size of
\* the arena record exceed half of the address space.
C14_DangerousIff ==
    last.op = "dangerous" =>
        (last.ret = <<TRUE>>) <=>
            ((top_base - data_base) + top_size + SizeOfBumpAlloc > address_space \div 2)

C14_Witness ==
    /\ last.op = "dangerous"
    /\ last.ret = <<FALSE>>
    /\ Len(frozen) = 2
    /\ (top_base - data_base) + top_size + SizeOfBumpAlloc = address_space \div 2

\* C17: no view operation and no handle query runs after a handle's drop has
\* released the reservation, and the reservation is released at most once.
C17_NoUseAfterRelease ==
    /\ last.op \in {"top", "extend_one", "pop", "freeze", "data_size", "dangerous"} =>
           munmapCalls = <<>>
    /\ Len(munmapCalls) <= 1
====
